---- MODULE Spec2Model ----
(***************************************************************************)
(* Anime-PAIS title matching engine.                                       *)
(*                                                                         *)
(* The module models the two matching programs of the repository:          *)
(*   src/matching_strategy_topn.py  (top-N candidates, "topn" family)      *)
(*   src/matching_strategy_v2.py    (progressive cascade, "v2" family)     *)
(*                                                                         *)
(* Titles are modelled at character level: a Python str is a sequence of   *)
(* one-character strings, so that lower(), strip(), re.sub(), split() and  *)
(* len() are computed as the code computes them.  A title VALUE is a       *)
(* tagged record (str / None / number) since the catalog is JSON and a     *)
(* title may be any JSON value.  Scores are exact rationals [n, d].        *)
(* The fields of an entry that no matching step reads (sources, type,      *)
(* status, notes) are left out.                                            *)
(***************************************************************************)
EXTENDS Integers, Sequences, FiniteSets, TLC

VARIABLES
    pc,             \* position of main(): the phase about to run
    family,         \* which program runs: "topn" or "v2"
    csv_rows,       \* input: the Title column of the FAILED_LOOKUP rows
    data,           \* input: data['data'] of the catalog JSON document
    csv_entries,    \* list of query entries (dicts)
    db_entries,     \* list of catalog entries (dicts), in load order
    anchor_index,   \* defaultdict(list): anchor token -> list of entries
    idx,            \* loop index of the query loop that is running
    csv_entry,      \* the query entry handed to the approaches
    candidates,     \* the candidate pool handed to the approaches
    top_n,          \* the n the top-N approaches were called with
    a1_results,     \* result of Approach 1 (mode depends on family)
    a2_results,     \* result of Approach 2
    a3_results,     \* result of Approach 3
    all_candidates, \* export loop: the merged dict, in insertion order
    top_candidates, \* export loop: the merged, sorted, truncated list
    full_results,   \* export loop: the row appended for the last query
    exc             \* "none", or the exception that ended the run

vars == <<pc, family, csv_rows, data, csv_entries, db_entries, anchor_index,
          idx, csv_entry, candidates, top_n, a1_results, a2_results,
          a3_results, all_candidates, top_candidates, full_results, exc>>

----------------------------------------------------------------------------
(* Characters and Python values *)

LowerAlpha == {"a","b","c","d","e","f","g","h","i","j","k","l","m",
               "n","o","p","q","r","s","t","u","v","w","x","y","z"}

UpperToLower ==
    [c \in {"A","B","C","D","E","F","G","H","I","J","K","L","M",
            "N","O","P","Q","R","S","T","U","V","W","X","Y","Z"} |->
        CASE c = "A" -> "a" [] c = "B" -> "b" [] c = "C" -> "c"
          [] c = "D" -> "d" [] c = "E" -> "e" [] c = "F" -> "f"
          [] c = "G" -> "g" [] c = "H" -> "h" [] c = "I" -> "i"
          [] c = "J" -> "j" [] c = "K" -> "k" [] c = "L" -> "l"
          [] c = "M" -> "m" [] c = "N" -> "n" [] c = "O" -> "o"
          [] c = "P" -> "p" [] c = "Q" -> "q" [] c = "R" -> "r"
          [] c = "S" -> "s" [] c = "T" -> "t" [] c = "U" -> "u"
          [] c = "V" -> "v" [] c = "W" -> "w" [] c = "X" -> "x"
          [] c = "Y" -> "y" [] c = "Z" -> "z"]

DigitChars == {"0","1","2","3","4","5","6","7","8","9"}

\* str.lower() on one character
lower_char(c) == IF c \in DOMAIN UpperToLower THEN UpperToLower[c] ELSE c

\* regex class \s
IsSpace(c) == c \in {" ", "\t"}

\* regex class \d
IsDigit(c) == c \in DigitChars

\* regex class \w
IsWordChar(c) == lower_char(c) \in LowerAlpha \/ IsDigit(c) \/ c = "_"

\* A Python value that may sit in a 'title' field.
StrVal(s) == [kind |-> "str", s |-> s, n |-> 0]
NoneVal == [kind |-> "None", s |-> <<>>, n |-> 0]
NumVal(k) == [kind |-> "num", s |-> <<>>, n |-> k]

\* isinstance(v, str)
IsStr(v) == v.kind = "str"

\* bool(v): the empty string, None and 0 are falsy
Truthy(v) ==
    CASE v.kind = "str" -> v.s # <<>>
      [] v.kind = "num" -> v.n # 0
      [] OTHER -> FALSE

\* len(v) where the code calls it on a title it knows to be truthy
PyLen(v) == Len(v.s)

----------------------------------------------------------------------------
(* String primitives *)

str_lower(s) == [i \in 1..Len(s) |-> lower_char(s[i])]

str_strip(s) ==
    LET keep == {i \in 1..Len(s) : ~IsSpace(s[i])}
    IN IF keep = {} THEN <<>>
       ELSE LET lo == CHOOSE i \in keep : \A j \in keep : i <= j
                hi == CHOOSE i \in keep : \A j \in keep : i >= j
            IN SubSeq(s, lo, hi)

\* re.sub(r'[^\w\s]', ' ', s)
sub_nonword(s) ==
    [i \in 1..Len(s) |-> IF IsWordChar(s[i]) \/ IsSpace(s[i]) THEN s[i] ELSE " "]

\* re.sub(r'\s+', ' ', s)
RECURSIVE sub_spaces(_, _)
sub_spaces(s, i) ==
    IF i > Len(s) THEN <<>>
    ELSE IF IsSpace(s[i])
         THEN IF i > 1 /\ IsSpace(s[i-1])
              THEN sub_spaces(s, i + 1)
              ELSE <<" ">> \o sub_spaces(s, i + 1)
         ELSE <<s[i]>> \o sub_spaces(s, i + 1)

\* str.split(): the maximal runs of non-whitespace, in order
RECURSIVE str_split(_, _, _)
str_split(s, i, cur) ==
    IF i > Len(s) THEN (IF cur = <<>> THEN <<>> ELSE <<cur>>)
    ELSE IF IsSpace(s[i])
         THEN (IF cur = <<>> THEN <<>> ELSE <<cur>>) \o str_split(s, i + 1, <<>>)
         ELSE str_split(s, i + 1, Append(cur, s[i]))

----------------------------------------------------------------------------
(* Python floats as exact rationals *)

RECURSIVE GCD(_, _)
GCD(a, b) == IF b = 0 THEN a ELSE GCD(b, a % b)

\* the quotient n / d (d > 0), in lowest terms
Rat(n, d) == LET g == GCD(n, d) IN [n |-> n \div g, d |-> d \div g]

RatAdd(a, b) == Rat(a.n * b.d + b.n * a.d, a.d * b.d)
RatMul(a, b) == Rat(a.n * b.n, a.d * b.d)
RatLT(a, b) == a.n * b.d < b.n * a.d
RatLE(a, b) == a.n * b.d <= b.n * a.d
RatMax(a, b) == IF RatLT(a, b) THEN b ELSE a

Zero == Rat(0, 1)
One == Rat(1, 1)

PyMin(a, b) == IF a <= b THEN a ELSE b
PyMax(a, b) == IF a >= b THEN a ELSE b

----------------------------------------------------------------------------
(* Normalizer, tokenizer, anchor extractor *)

safe_normalize(title) ==
    IF ~Truthy(title) \/ ~IsStr(title) THEN <<>>
    ELSE LET t1 == str_strip(str_lower(title.s))
             t2 == sub_nonword(t1)
             t3 == sub_spaces(t2, 1)
         IN str_strip(t3)

\* the stop-word set of each program: only the top-N program has 'by'
common_words(fam) ==
    { <<"t","h","e">>, <<"a">>, <<"a","n">>, <<"a","n","d">>, <<"o","r">>,
      <<"o","f">>, <<"i","s">>, <<"t","o">>, <<"i","n">>, <<"o","n">>,
      <<"a","t">>, <<"w","i","t","h">>, <<"f","o","r">> }
    \cup (IF fam = "topn" THEN { <<"b","y">> } ELSE {})

\* extract_tokens after normalized = safe_normalize(title)
tokens_of(fam, normalized) ==
    IF normalized = <<>> THEN <<>>
    ELSE SelectSeq(str_split(normalized, 1, <<>>),
                   LAMBDA t : t \notin common_words(fam) /\ Len(t) > 1)

\* the list of tokens, in title order
extract_tokens(fam, title) == tokens_of(fam, safe_normalize(title))

\* get_anchors after tokens = extract_tokens(title)
\* a variant of get_anchors without the case of a single token
anchors_of_first_and_last(tokens) ==
    IF tokens = <<>> THEN << <<>>, <<>> >>
    ELSE << <<tokens[1]>>, <<tokens[Len(tokens)]>> >>

anchors_of(tokens) ==
    IF tokens = <<>> THEN <<<<>>, <<>>>>
    ELSE IF Len(tokens) = 1 THEN <<tokens, <<>>>>
    ELSE << <<tokens[1]>>, <<tokens[Len(tokens)]>> >>

\* the pair of lists (first, last)
get_anchors(fam, title) == anchors_of(extract_tokens(fam, title))

\* set(list)
ToSet(list) == {list[i] : i \in 1..Len(list)}

\* ngrams_safe after text = safe_normalize(title).replace(' ', '')
ngrams_of(text, n) ==
    IF Len(text) < n THEN {}
    ELSE {SubSeq(text, i, i + n - 1) : i \in 1..(Len(text) - n + 1)}

ngrams_safe(title, n) ==
    ngrams_of(SelectSeq(safe_normalize(title), LAMBDA c : c # " "), n)

calc_overlap(set1, set2) ==
    IF set1 = {} \/ set2 = {} THEN Zero
    ELSE LET intersection == set1 \cap set2
             union == set1 \cup set2
         IN IF union = {} THEN Zero
            ELSE Rat(Cardinality(intersection), Cardinality(union))

----------------------------------------------------------------------------
(* Title expander: the strip rules as regular expressions *)

\* pattern items: a literal (matched ignoring case), \s+, \s*, \d+, .*, \b
Lit(w) == [i \in 1..Len(w) |-> [q |-> "one", c |-> "lit", ch |-> w[i]]]
SpacePlus == << [q |-> "plus", c |-> "space", ch |-> ""] >>
SpaceStar == << [q |-> "star", c |-> "space", ch |-> ""] >>
DigitPlus == << [q |-> "plus", c |-> "digit", ch |-> ""] >>
AnyStar == << [q |-> "star", c |-> "any", ch |-> ""] >>
WordBoundary == << [q |-> "wb", c |-> "", ch |-> ""] >>

season_patterns ==
    << SpacePlus \o Lit(<<"s","e","a","s","o","n">>) \o SpacePlus \o DigitPlus,
       SpacePlus \o Lit(<<"s">>) \o DigitPlus \o WordBoundary,
       SpacePlus \o Lit(<<"p","a","r","t">>) \o SpacePlus \o DigitPlus,
       SpacePlus \o DigitPlus \o Lit(<<"n","d">>) \o SpacePlus
           \o Lit(<<"s","e","a","s","o","n">>),
       SpacePlus \o DigitPlus \o Lit(<<"r","d">>) \o SpacePlus
           \o Lit(<<"s","e","a","s","o","n">>),
       SpacePlus \o DigitPlus \o Lit(<<"t","h">>) \o SpacePlus
           \o Lit(<<"s","e","a","s","o","n">>),
       Lit(<<":">>) \o SpaceStar \o Lit(<<"t","h","e">>) \o SpacePlus
           \o Lit(<<"f","i","n","a","l">>),
       SpacePlus \o Lit(<<"f","i","n","a","l">>) \o SpacePlus
           \o Lit(<<"s","e","a","s","o","n">>),
       Lit(<<":">>) \o SpaceStar \o Lit(<<"u","l","t","r","a">>) \o SpacePlus
           \o Lit(<<"r","o","m","a","n","t","i","c">>),
       Lit(<<":">>) \o SpaceStar \o Lit(<<"b","e","y","o","n","d">>) \o SpacePlus
           \o AnyStar >>

\* does character ch belong to the class of pattern item e (re.IGNORECASE)
InClass(e, ch) ==
    CASE e.c = "lit" -> lower_char(ch) = e.ch
      [] e.c = "space" -> IsSpace(ch)
      [] e.c = "digit" -> IsDigit(ch)
      [] OTHER -> ch # "\n"

\* the first position >= i of s whose character is not in the class of e
RECURSIVE SkipClass(_, _, _)
SkipClass(e, s, i) ==
    IF i <= Len(s) /\ InClass(e, s[i]) THEN SkipClass(e, s, i + 1) ELSE i

\* \b between s[i-1] and s[i]
AtWordBoundary(s, i) ==
    LET before == i > 1 /\ IsWordChar(s[i-1])
        after == i <= Len(s) /\ IsWordChar(s[i])
    IN before # after

\* Match items k.. of pat at position i of s: the position after the match,
\* or 0.  Every repeated class of season_patterns is followed by an item
\* that no character of the class matches (or by nothing), so the greedy
\* repetition is the only one the regex engine can succeed with.
RECURSIVE re_match(_, _, _, _)
re_match(pat, k, s, i) ==
    IF k > Len(pat) THEN i
    ELSE LET e == pat[k]
         IN CASE e.q = "one" ->
                   IF i <= Len(s) /\ InClass(e, s[i])
                   THEN re_match(pat, k + 1, s, i + 1) ELSE 0
              [] e.q = "plus" ->
                   LET j == SkipClass(e, s, i)
                   IN IF j > i THEN re_match(pat, k + 1, s, j) ELSE 0
              [] e.q = "star" -> re_match(pat, k + 1, s, SkipClass(e, s, i))
              [] OTHER ->
                   IF AtWordBoundary(s, i) THEN re_match(pat, k + 1, s, i) ELSE 0

\* re.sub(pattern, '', s, flags=re.IGNORECASE): every leftmost match removed
RECURSIVE re_sub(_, _, _)
re_sub(pat, s, i) ==
    IF i > Len(s) THEN <<>>
    ELSE LET j == re_match(pat, 1, s, i)
         IN IF j > i THEN re_sub(pat, s, j)
            ELSE <<s[i]>> \o re_sub(pat, s, i + 1)

\* for pattern in season_patterns: base = re.sub(pattern, '', base)
RECURSIVE strip_patterns(_, _)
strip_patterns(k, base) ==
    IF k > Len(season_patterns) THEN base
    ELSE strip_patterns(k + 1, re_sub(season_patterns[k], base, 1))

\* a variant of the end of expand_title without the test len(base) > 3
variations_of_any_length(title, base) ==
    IF base # <<>> /\ base # title.s THEN <<title, StrVal(base)>> ELSE <<title>>

\* the variations, after base = base.strip()
variations_of(title, base) ==
    IF base # <<>> /\ base # title.s /\ Len(base) > 3
    THEN <<title, StrVal(base)>>
    ELSE <<title>>

\* a variant of expand_title that strips no season marker
expand_title_unstripped(title) ==
    [exc |-> "none", val |-> IF ~Truthy(title) THEN <<StrVal(<<>>)>> ELSE <<title>>]

\* [exc, val]: exc is the exception raised ("none" when it returns val);
\* re.sub raises TypeError when title is not a string
expand_title(title) ==
    IF ~Truthy(title) THEN [exc |-> "none", val |-> <<StrVal(<<>>)>>]
    ELSE IF ~IsStr(title) THEN [exc |-> "TypeError", val |-> <<>>]
    ELSE [exc |-> "none",
          val |-> variations_of(title, str_strip(strip_patterns(1, title.s)))]

----------------------------------------------------------------------------
(* Entries (Python dicts) and pre-computation *)

\* A freshly built entry dict: 'title' (and 'is_synonym') only.  id stands for
\* the object's identity, keys for the bundle keys the dict holds.
NewEntry(id, title, syn) ==
    [id |-> id, title |-> title, is_synonym |-> syn, keys |-> {},
     _tokens |-> {}, _anchors_first |-> {}, _anchors_last |-> {},
     _3grams |-> {}, _expanded |-> <<>>]

\* None where an entry is expected
NoneEntry == NewEntry(0, NoneVal, FALSE)

\* entry.get(key, default)
Get(entry, key, default) == IF key \in entry.keys THEN entry[key] ELSE default

\* The assignments of precompute_entry, in order: the three token fields (and
\* '_3grams' in the v2 program) are set before expand_title is called.
\* [exc, ret, entry]: the exception raised ("none" if it returns), whether the
\* return value is the entry (TRUE) or None (FALSE), and the dict as it is left
attach_bundle(fam, entry, tokens, anchors, grams, expanded) ==
    [exc |-> expanded.exc,
     ret |-> expanded.exc = "none",
     entry |-> [entry EXCEPT
                  !._tokens = ToSet(tokens),
                  !._anchors_first = ToSet(anchors[1]),
                  !._anchors_last = ToSet(anchors[2]),
                  !._3grams = IF fam = "v2" THEN grams ELSE @,
                  !._expanded = IF expanded.exc = "none" THEN expanded.val ELSE @,
                  !.keys = {"_tokens", "_anchors_first", "_anchors_last"}
                           \cup (IF fam = "v2" THEN {"_3grams"} ELSE {})
                           \cup (IF expanded.exc = "none" THEN {"_expanded"} ELSE {})]]

precompute_entry(fam, entry) ==
    IF ~Truthy(entry.title) THEN [exc |-> "none", ret |-> FALSE, entry |-> entry]
    ELSE attach_bundle(fam, entry,
                       extract_tokens(fam, entry.title),
                       get_anchors(fam, entry.title),
                       ngrams_safe(entry.title, 3),
                       expand_title(entry.title))

\* index[anchor].append(entry) on a defaultdict(list)
IndexAppend(index, anchor, entry) ==
    IF anchor \in DOMAIN index
    THEN [index EXCEPT ![anchor] = Append(@, entry)]
    ELSE [a \in DOMAIN index \cup {anchor} |->
             IF a = anchor THEN <<entry>> ELSE index[a]]

\* for anchor in entry['_anchors_first']: index[anchor].append(entry)
RECURSIVE IndexAppendAll(_, _, _)
IndexAppendAll(index, anchors, entry) ==
    IF anchors = {} THEN index
    ELSE LET anchor == CHOOSE a \in anchors : TRUE
         IN IndexAppendAll(IndexAppend(index, anchor, entry),
                           anchors \ {anchor}, entry)

\* a variant of the index build keyed by the last anchors
RECURSIVE build_index_from_last(_, _, _)
build_index_from_last(entries, k, index) ==
    IF k > Len(entries) THEN index
    ELSE build_index_from_last(entries, k + 1,
             IF "_anchors_last" \in entries[k].keys /\ entries[k]._anchors_last # {}
             THEN IndexAppendAll(index, entries[k]._anchors_last, entries[k])
             ELSE index)

RECURSIVE build_index_from(_, _, _)
build_index_from(entries, k, index) ==
    IF k > Len(entries) THEN index
    ELSE LET entry == entries[k]
         IN build_index_from(entries, k + 1,
                IF "_anchors_first" \in entry.keys /\ entry._anchors_first # {}
                THEN IndexAppendAll(index, entry._anchors_first, entry)
                ELSE index)

\* the empty defaultdict(list)
EmptyIndex == [a \in {} |-> <<>>]

build_anchor_index(entries) == build_index_from(entries, 1, EmptyIndex)

----------------------------------------------------------------------------
(* Top-N approaches (src/matching_strategy_topn.py) *)

\* a variant of the sort that leaves the list in pool order
sort_pool_order(scored) == scored

\* list.sort(key=score, reverse=True): stable, descending
RECURSIVE sort_desc(_)
sort_desc(scored) ==
    IF scored = <<>> THEN <<>>
    ELSE LET x == Head(scored)
             rest == sort_desc(Tail(scored))
             k == Cardinality({i \in 1..Len(rest) : RatLT(x.score, rest[i].score)})
         IN SubSeq(rest, 1, k) \o <<x>> \o SubSeq(rest, k + 1, Len(rest))

\* list[:n]
slice_to(list, n) ==
    IF n >= 0 THEN SubSeq(list, 1, PyMin(n, Len(list)))
    ELSE SubSeq(list, 1, PyMax(0, Len(list) + n))

RECURSIVE a1_topn_scored(_, _, _)
a1_topn_scored(csv_tokens, cands, k) ==
    IF k > Len(cands) THEN <<>>
    ELSE LET db_entry == cands[k]
             db_tokens == Get(db_entry, "_tokens", {})
             overlap == calc_overlap(csv_tokens, db_tokens)
         IN (IF db_tokens # {} /\ RatLT(Rat(3, 10), overlap)
             THEN << [entry |-> db_entry, score |-> overlap, method |-> "token"] >>
             ELSE <<>>)
            \o a1_topn_scored(csv_tokens, cands, k + 1)

approach_1_token_topn(entry, candidate_entries, n) ==
    LET csv_tokens == Get(entry, "_tokens", {})
    IN IF csv_tokens = {} THEN <<>>
       ELSE slice_to(sort_desc(a1_topn_scored(csv_tokens, candidate_entries, 1)), n)

\* the composite score of one candidate that passed the anchor gate
a2_topn_total(entry, db_entry, first_match, last_match) ==
    LET csv_tokens == Get(entry, "_tokens", {})
        csv_title == entry.title
        anchor_score == RatAdd(IF first_match THEN Rat(4, 10) ELSE Zero,
                               IF last_match THEN Rat(2, 10) ELSE Zero)
        db_tokens == Get(db_entry, "_tokens", {})
        token_score == RatMul(calc_overlap(csv_tokens, db_tokens), Rat(4, 10))
        len_ratio == IF Truthy(csv_title)
                     THEN Rat(PyMin(PyLen(csv_title), PyLen(db_entry.title)),
                              PyMax(PyLen(csv_title), 1))
                     ELSE Zero
        len_score == RatMul(len_ratio, Rat(2, 10))
    IN RatAdd(RatAdd(anchor_score, token_score), len_score)

\* a variant of the loop of approach_2_anchor_topn in which a candidate without
\* a common anchor is scored (anchor part 0) instead of skipped
RECURSIVE a2_topn_scored_soft(_, _, _)
a2_topn_scored_soft(entry, cands, k) ==
    IF k > Len(cands) THEN <<>>
    ELSE LET db_entry == cands[k]
             first_match == (Get(entry, "_anchors_first", {})
                             \cap Get(db_entry, "_anchors_first", {})) # {}
             last_match == (Get(entry, "_anchors_last", {})
                            \cap Get(db_entry, "_anchors_last", {})) # {}
             total == a2_topn_total(entry, db_entry, first_match, last_match)
         IN (IF RatLT(Rat(4, 10), total)
             THEN << [entry |-> db_entry, score |-> total, method |-> "anchor"] >>
             ELSE <<>>)
            \o a2_topn_scored_soft(entry, cands, k + 1)

RECURSIVE a2_topn_scored(_, _, _)
a2_topn_scored(entry, cands, k) ==
    IF k > Len(cands) THEN <<>>
    ELSE LET db_entry == cands[k]
             csv_first == Get(entry, "_anchors_first", {})
             csv_last == Get(entry, "_anchors_last", {})
             db_first == Get(db_entry, "_anchors_first", {})
             db_last == Get(db_entry, "_anchors_last", {})
             first_match == (csv_first \cap db_first) # {}
             last_match == (csv_last \cap db_last) # {}
             total == a2_topn_total(entry, db_entry, first_match, last_match)
         IN (IF ~first_match /\ ~last_match THEN <<>>
             ELSE IF RatLT(Rat(4, 10), total)
             THEN << [entry |-> db_entry, score |-> total, method |-> "anchor"] >>
             ELSE <<>>)
            \o a2_topn_scored(entry, cands, k + 1)

approach_2_anchor_topn(entry, candidate_entries, n) ==
    slice_to(sort_desc(a2_topn_scored(entry, candidate_entries, 1)), n)

\* for db_var in db_expanded: best_overlap = max(best_overlap, overlap)
RECURSIVE a3_topn_db_vars(_, _, _, _)
a3_topn_db_vars(csv_tokens, db_expanded, j, best_overlap) ==
    IF j > Len(db_expanded) THEN best_overlap
    ELSE LET db_tokens == ToSet(extract_tokens("topn", db_expanded[j]))
         IN a3_topn_db_vars(csv_tokens, db_expanded, j + 1,
                IF db_tokens = {} THEN best_overlap
                ELSE RatMax(best_overlap, calc_overlap(csv_tokens, db_tokens)))

\* for csv_var in csv_expanded
RECURSIVE a3_topn_best_overlap(_, _, _, _)
a3_topn_best_overlap(csv_expanded, db_expanded, i, best_overlap) ==
    IF i > Len(csv_expanded) THEN best_overlap
    ELSE LET csv_tokens == ToSet(extract_tokens("topn", csv_expanded[i]))
         IN a3_topn_best_overlap(csv_expanded, db_expanded, i + 1,
                IF csv_tokens = {} THEN best_overlap
                ELSE a3_topn_db_vars(csv_tokens, db_expanded, 1, best_overlap))

\* a variant of the loop of approach_3_expand_topn whose gate is >= 0.5
RECURSIVE a3_topn_scored_at_least(_, _, _)
a3_topn_scored_at_least(csv_expanded, cands, k) ==
    IF k > Len(cands) THEN <<>>
    ELSE (IF RatLE(Rat(5, 10),
                   a3_topn_best_overlap(csv_expanded,
                       Get(cands[k], "_expanded", <<cands[k].title>>), 1, Zero))
          THEN << [entry |-> cands[k],
                   score |-> a3_topn_best_overlap(csv_expanded,
                       Get(cands[k], "_expanded", <<cands[k].title>>), 1, Zero),
                   method |-> "expand"] >>
          ELSE <<>>)
         \o a3_topn_scored_at_least(csv_expanded, cands, k + 1)

RECURSIVE a3_topn_scored(_, _, _)
a3_topn_scored(csv_expanded, cands, k) ==
    IF k > Len(cands) THEN <<>>
    ELSE LET db_entry == cands[k]
             db_expanded == Get(db_entry, "_expanded", <<db_entry.title>>)
             best_overlap == a3_topn_best_overlap(csv_expanded, db_expanded, 1, Zero)
         IN (IF RatLT(Rat(5, 10), best_overlap)
             THEN << [entry |-> db_entry, score |-> best_overlap, method |-> "expand"] >>
             ELSE <<>>)
            \o a3_topn_scored(csv_expanded, cands, k + 1)

approach_3_expand_topn(entry, candidate_entries, n) ==
    LET csv_expanded == Get(entry, "_expanded", <<entry.title>>)
    IN slice_to(sort_desc(a3_topn_scored(csv_expanded, candidate_entries, 1)), n)

----------------------------------------------------------------------------
(* Best-single-match approaches (src/matching_strategy_v2.py) *)

\* the tuple (best, best_pass, best_score) an approach returns
Triple(best, best_pass, best_score) ==
    [match |-> best, pass |-> best_pass, score |-> best_score]

\* a variant of the loop of approach_1_token without the early return on an
\* exact match: the exact entry is graded by the tier rules like any other
RECURSIVE a1_loop_no_exit(_, _, _, _)
a1_loop_no_exit(csv_tokens, cands, k, st) ==
    IF k > Len(cands) THEN st
    ELSE LET db_entry == cands[k]
             db_tokens == Get(db_entry, "_tokens", {})
             overlap == calc_overlap(csv_tokens, db_tokens)
         IN IF db_tokens = {} THEN a1_loop_no_exit(csv_tokens, cands, k + 1, st)
            ELSE a1_loop_no_exit(csv_tokens, cands, k + 1,
                   IF RatLE(Rat(9, 10), overlap) /\ st.pass < 2
                   THEN Triple(db_entry, 2, overlap)
                   ELSE IF RatLE(Rat(7, 10), overlap) /\ st.pass < 3
                   THEN Triple(db_entry, 3, overlap)
                   ELSE IF RatLE(Rat(5, 10), overlap) /\ st.pass < 4
                   THEN Triple(db_entry, 4, overlap)
                   ELSE st)

RECURSIVE a1_loop(_, _, _, _)
a1_loop(csv_tokens, cands, k, st) ==
    IF k > Len(cands) THEN st
    ELSE LET db_entry == cands[k]
             db_tokens == Get(db_entry, "_tokens", {})
             overlap == calc_overlap(csv_tokens, db_tokens)
         IN IF db_tokens = {} THEN a1_loop(csv_tokens, cands, k + 1, st)
            ELSE IF overlap = One /\ csv_tokens = db_tokens
            THEN Triple(db_entry, 1, One)
            ELSE a1_loop(csv_tokens, cands, k + 1,
                   IF RatLE(Rat(9, 10), overlap) /\ st.pass < 2
                   THEN Triple(db_entry, 2, overlap)
                   ELSE IF RatLE(Rat(7, 10), overlap) /\ st.pass < 3
                   THEN Triple(db_entry, 3, overlap)
                   ELSE IF RatLE(Rat(5, 10), overlap) /\ st.pass < 4
                   THEN Triple(db_entry, 4, overlap)
                   ELSE st)

approach_1_token(entry, candidate_entries) ==
    LET csv_tokens == Get(entry, "_tokens", {})
    IN IF csv_tokens = {} THEN Triple(NoneEntry, 0, Zero)
       ELSE a1_loop(csv_tokens, candidate_entries, 1, Triple(NoneEntry, 0, Zero))

\* the composite score of one candidate that passed the anchor gate
a2_total(entry, db_entry, first_match, last_match) ==
    LET csv_tokens == Get(entry, "_tokens", {})
        csv_3grams == Get(entry, "_3grams", {})
        csv_title == entry.title
        anchor_score == RatAdd(IF first_match THEN Rat(4, 10) ELSE Zero,
                               IF last_match THEN Rat(2, 10) ELSE Zero)
        db_tokens == Get(db_entry, "_tokens", {})
        token_score == RatMul(calc_overlap(csv_tokens, db_tokens), Rat(3, 10))
        db_3grams == Get(db_entry, "_3grams", {})
        ngram_score == RatMul(calc_overlap(csv_3grams, db_3grams), Rat(2, 10))
        len_ratio == IF Truthy(csv_title)
                     THEN Rat(PyMin(PyLen(csv_title), PyLen(db_entry.title)),
                              PyMax(PyLen(csv_title), 1))
                     ELSE Zero
        len_score == RatMul(len_ratio, Rat(1, 10))
    IN RatAdd(RatAdd(RatAdd(anchor_score, token_score), ngram_score), len_score)

RECURSIVE a2_loop(_, _, _, _)
a2_loop(entry, cands, k, st) ==
    IF k > Len(cands) THEN st
    ELSE LET db_entry == cands[k]
             csv_first == Get(entry, "_anchors_first", {})
             csv_last == Get(entry, "_anchors_last", {})
             db_first == Get(db_entry, "_anchors_first", {})
             db_last == Get(db_entry, "_anchors_last", {})
             first_match == (csv_first \cap db_first) # {}
             last_match == (csv_last \cap db_last) # {}
             total == a2_total(entry, db_entry, first_match, last_match)
         IN IF ~first_match /\ ~last_match THEN a2_loop(entry, cands, k + 1, st)
            ELSE a2_loop(entry, cands, k + 1,
                   IF RatLE(Rat(9, 10), total) /\ st.pass <= 1
                   THEN Triple(db_entry, 1, total)
                   ELSE IF RatLE(Rat(75, 100), total) /\ st.pass <= 2
                   THEN Triple(db_entry, 2, total)
                   ELSE IF RatLE(Rat(6, 10), total) /\ st.pass <= 3
                   THEN Triple(db_entry, 3, total)
                   ELSE IF RatLE(Rat(45, 100), total) /\ st.pass <= 4
                   THEN Triple(db_entry, 4, total)
                   ELSE st)

approach_2_anchor_score(entry, candidate_entries) ==
    LET csv_first == Get(entry, "_anchors_first", {})
        csv_last == Get(entry, "_anchors_last", {})
    IN IF csv_first = {} /\ csv_last = {} THEN Triple(NoneEntry, 0, Zero)
       ELSE a2_loop(entry, candidate_entries, 1, Triple(NoneEntry, 0, Zero))

\* One pairing (csv_var, db_var) of Approach 3: [ret, st], ret when the function
\* returns from inside the loops.
a3_pair(db_entry, csv_var_tokens, db_var_tokens, st) ==
    IF csv_var_tokens = db_var_tokens
    THEN [ret |-> TRUE, st |-> Triple(db_entry, 1, One)]
    ELSE LET score == calc_overlap(csv_var_tokens, db_var_tokens)
             st1 == IF (csv_var_tokens \subseteq db_var_tokens
                        \/ db_var_tokens \subseteq csv_var_tokens) /\ st.pass < 2
                    THEN Triple(db_entry, 2, score)
                    ELSE st
             overlap == calc_overlap(csv_var_tokens, db_var_tokens)
             st2 == IF RatLE(Rat(7, 10), overlap) /\ st1.pass < 3
                    THEN Triple(db_entry, 3, overlap)
                    ELSE IF RatLE(Rat(5, 10), overlap) /\ st1.pass < 4
                    THEN Triple(db_entry, 4, overlap)
                    ELSE st1
         IN [ret |-> FALSE, st |-> st2]

\* for db_var in db_expanded
RECURSIVE a3_db_vars(_, _, _, _, _)
a3_db_vars(db_entry, csv_var_tokens, db_expanded, j, st) ==
    IF j > Len(db_expanded) THEN [ret |-> FALSE, st |-> st]
    ELSE LET db_var_tokens == ToSet(extract_tokens("v2", db_expanded[j]))
         IN IF db_var_tokens = {}
            THEN a3_db_vars(db_entry, csv_var_tokens, db_expanded, j + 1, st)
            ELSE LET r == a3_pair(db_entry, csv_var_tokens, db_var_tokens, st)
                 IN IF r.ret THEN r
                    ELSE a3_db_vars(db_entry, csv_var_tokens, db_expanded, j + 1, r.st)

\* a variant of the csv_var loop of approach_3_expanded without
\* "if not csv_var_tokens: continue"
RECURSIVE a3_csv_vars_no_skip(_, _, _, _, _)
a3_csv_vars_no_skip(db_entry, csv_expanded, db_expanded, i, st) ==
    IF i > Len(csv_expanded) THEN [ret |-> FALSE, st |-> st]
    ELSE LET csv_var_tokens == ToSet(extract_tokens("v2", csv_expanded[i]))
             r == a3_db_vars(db_entry, csv_var_tokens, db_expanded, 1, st)
         IN IF r.ret THEN r
            ELSE a3_csv_vars_no_skip(db_entry, csv_expanded, db_expanded, i + 1, r.st)

\* for csv_var in csv_expanded
RECURSIVE a3_csv_vars(_, _, _, _, _)
a3_csv_vars(db_entry, csv_expanded, db_expanded, i, st) ==
    IF i > Len(csv_expanded) THEN [ret |-> FALSE, st |-> st]
    ELSE LET csv_var_tokens == ToSet(extract_tokens("v2", csv_expanded[i]))
         IN IF csv_var_tokens = {}
            THEN a3_csv_vars(db_entry, csv_expanded, db_expanded, i + 1, st)
            ELSE LET r == a3_db_vars(db_entry, csv_var_tokens, db_expanded, 1, st)
                 IN IF r.ret THEN r
                    ELSE a3_csv_vars(db_entry, csv_expanded, db_expanded, i + 1, r.st)

\* for db_entry in candidate_entries
RECURSIVE a3_loop(_, _, _, _)
a3_loop(csv_expanded, cands, k, st) ==
    IF k > Len(cands) THEN st
    ELSE LET db_entry == cands[k]
             db_expanded == Get(db_entry, "_expanded", <<db_entry.title>>)
             r == a3_csv_vars(db_entry, csv_expanded, db_expanded, 1, st)
         IN IF r.ret THEN r.st
            ELSE a3_loop(csv_expanded, cands, k + 1, r.st)

approach_3_expanded(entry, candidate_entries) ==
    LET csv_expanded == Get(entry, "_expanded", <<entry.title>>)
    IN a3_loop(csv_expanded, candidate_entries, 1, Triple(NoneEntry, 0, Zero))

----------------------------------------------------------------------------
(* main(): configuration and the steps of the pipeline *)

TOP_N == 5
MAX_CANDIDATES == 100
TEST_SIZE == 30
TopnTestSize == 20
SynonymLimit == 3
ExportTopN == 3
ExportKeep == 5

\* a lookup by subscript, anchor_index[anchor]: on a defaultdict(list) it
\* inserts the missing key with an empty bucket
index_getitem(index, anchor) ==
    [val |-> IF anchor \in DOMAIN index THEN index[anchor] ELSE <<>>,
     index |-> IF anchor \in DOMAIN index THEN index
               ELSE [a \in DOMAIN index \cup {anchor} |->
                        IF a = anchor THEN <<>> ELSE index[a]]]

\* anchor_index.get(anchor, []): [val, index], the value returned and the dict
\* as the call leaves it (dict.get never inserts the missing key)
index_get(index, anchor) ==
    [val |-> IF anchor \in DOMAIN index THEN index[anchor] ELSE <<>>,
     index |-> index]

\* for anchor in csv_first: candidates.extend(anchor_index.get(anchor, []))
RECURSIVE extend_candidates(_, _, _)
extend_candidates(index, anchors, cands) ==
    IF anchors = {} THEN [val |-> cands, index |-> index]
    ELSE LET anchor == CHOOSE a \in anchors : TRUE
             got == index_get(index, anchor)
         IN extend_candidates(got.index, anchors \ {anchor}, cands \o got.val)

\* a variant of the deduplication keyed by title instead of identity
RECURSIVE dedup_by_title(_)
dedup_by_title(cands) ==
    IF cands = <<>> THEN <<>>
    ELSE LET init == dedup_by_title(SubSeq(cands, 1, Len(cands) - 1))
             c == cands[Len(cands)]
         IN IF \E i \in 1..Len(init) : init[i].title = c.title THEN init
            ELSE Append(init, c)

\* list({id(c): c for c in candidates}.values())
RECURSIVE dedup_by_id(_)
dedup_by_id(cands) ==
    IF cands = <<>> THEN <<>>
    ELSE LET init == dedup_by_id(SubSeq(cands, 1, Len(cands) - 1))
             c == cands[Len(cands)]
         IN IF \E i \in 1..Len(init) : init[i].id = c.id THEN init
            ELSE Append(init, c)

\* a variant of the candidate gathering that hands the whole catalog to a
\* query without anchors in both programs
get_candidates_whole(fam, entry, index, entries) ==
    LET csv_first == Get(entry, "_anchors_first", {})
    IN IF csv_first # {}
       THEN LET got == extend_candidates(index, csv_first, <<>>)
            IN [val |-> dedup_by_id(got.val), index |-> got.index]
       ELSE [val |-> entries, index |-> index]

\* "Get candidates via index" of the query loops: [val, index]
get_candidates(fam, entry, index, entries) ==
    LET csv_first == Get(entry, "_anchors_first", {})
    IN IF csv_first # {}
       THEN LET got == extend_candidates(index, csv_first, <<>>)
            IN [val |-> dedup_by_id(got.val), index |-> got.index]
       ELSE [val |-> IF fam = "topn" THEN slice_to(entries, MAX_CANDIDATES)
                     ELSE entries,
             index |-> index]

\* for entry in csv_entries: precompute_entry(entry)   (return value unused):
\* [exc, entries], entries being csv_entries as the loop leaves it
RECURSIVE load_csv(_, _, _, _)
load_csv(fam, rows, k, r) ==
    IF r.exc # "none" \/ k > Len(rows) THEN r
    ELSE load_csv(fam, rows, k + 1,
                  [exc |-> precompute_entry(fam, NewEntry(k, rows[k], FALSE)).exc,
                   entries |-> [r.entries EXCEPT ![k] =
                       precompute_entry(fam, NewEntry(k, rows[k], FALSE)).entry]])

\* if precompute_entry(e): db_entries.append(e), given r = precompute_entry(e):
\* [exc, entries]
append_if(entries, r) ==
    [exc |-> r.exc,
     entries |-> IF r.exc = "none" /\ r.ret THEN Append(entries, r.entry)
                 ELSE entries]

\* One title of the catalog (the entry's own, or a synonym)
load_title(fam, entries, id, title, syn) ==
    append_if(entries, precompute_entry(fam, NewEntry(id, title, syn)))

\* The titles of one raw record, in order: its own, then synonyms[:3].
\* Object identities are numbered 4 per raw record.
RECURSIVE load_titles(_, _, _, _, _)
load_titles(fam, r, base, titles, k) ==
    IF r.exc # "none" \/ k > Len(titles) THEN r
    ELSE load_titles(fam,
                     load_title(fam, r.entries, base + k, titles[k], k > 1),
                     base, titles, k + 1)

\* One iteration of "for entry in data['data']": [exc, entries]
load_record(fam, entries, records, k) ==
    load_titles(fam, [exc |-> "none", entries |-> entries],
                (SynonymLimit + 1) * (k - 1),
                <<records[k].title>> \o slice_to(records[k].synonyms, SynonymLimit),
                1)

\* a variant of the merge that keeps the first record seen for a title
merge_one_first(all, res) ==
    IF \E i \in 1..Len(all) : all[i].title = res.entry.title THEN all
    ELSE Append(all, [title |-> res.entry.title, score |-> res.score,
                      method |-> res.method])

\* all_candidates after one (match, score, method) of the export loop
merge_one(all, res) ==
    LET title == res.entry.title
        rec == [title |-> title, score |-> res.score, method |-> res.method]
        at == {i \in 1..Len(all) : all[i].title = title}
    IN IF at = {} THEN Append(all, rec)
       ELSE LET i == CHOOSE j \in at : TRUE
            IN IF RatLT(all[i].score, res.score) THEN [all EXCEPT ![i] = rec]
               ELSE all

\* for match, score, method in (a1_results + a2_results + a3_results)
RECURSIVE merge_results(_, _, _)
merge_results(all, results, k) ==
    IF k > Len(results) THEN all
    ELSE merge_results(merge_one(all, results[k]), results, k + 1)

\* the row appended to full_results
export_row(entry, top) ==
    [csv_title |-> entry.title,
     top_candidate |-> IF top # <<>> THEN top[1].title ELSE StrVal(<<>>),
     top_score |-> IF top # <<>> THEN top[1].score ELSE Zero,
     top_method |-> IF top # <<>> THEN top[1].method ELSE "",
     candidate_count |-> Len(top)]

----------------------------------------------------------------------------
(* Inputs *)

\* "Ab Cd"
T_AbCd == StrVal(<<"A","b"," ","C","d">>)
\* "Cd Ab"
T_CdAb == StrVal(<<"C","d"," ","A","b">>)
\* "Cd Ef"
T_CdEf == StrVal(<<"C","d"," ","E","f">>)
\* "Ab Cd S2"
T_AbCdS2 == StrVal(<<"A","b"," ","C","d"," ","S","2">>)
\* "Ab Cd Ef"
T_AbCdEf == StrVal(<<"A","b"," ","C","d"," ","E","f">>)
\* "Ab S2"
T_AbS2 == StrVal(<<"A","b"," ","S","2">>)
\* "Ab Ef S2"
T_AbEfS2 == StrVal(<<"A","b"," ","E","f"," ","S","2">>)
\* "Ab Ef S2 Cd"
T_AbEfS2Cd == StrVal(<<"A","b"," ","E","f"," ","S","2"," ","C","d">>)
\* "Ab Ef Gh S2"
T_AbEfGhS2 == StrVal(<<"A","b"," ","E","f"," ","G","h"," ","S","2">>)
\* "Ab Cd: Beyond Ef"
T_AbCdBeyondEf == StrVal(<<"A","b"," ","C","d",":"," ","B","e","y","o","n","d"," ","E","f">>)
\* "Ab Cd Part 2"
T_AbCdPart2 == StrVal(<<"A","b"," ","C","d"," ","P","a","r","t"," ","2">>)
\* "Ab Cd S2 Ef"
T_AbCdS2Ef == StrVal(<<"A","b"," ","C","d"," ","S","2"," ","E","f">>)
\* "The"
T_The == StrVal(<<"T","h","e">>)
\* ""
T_Empty == StrVal(<<>>)
\* "Attack on Titan"
T_AoT == StrVal(<<"A","t","t","a","c","k"," ","o","n"," ","T","i","t","a","n">>)
\* "Attack on Titan Season 2"
T_AoTS2 == StrVal(<<"A","t","t","a","c","k"," ","o","n"," ","T","i","t","a","n"," ","S","e","a","s","o","n"," ","2">>)
\* "Attack on Titan: Junior High"
T_AoTJH == StrVal(<<"A","t","t","a","c","k"," ","o","n"," ","T","i","t","a","n",":"," ","J","u","n","i","o","r"," ","H","i","g","h">>)

\* "Some Show Season 2"
T_SomeShowSeason2 == StrVal(<<"S","o","m","e"," ","S","h","o","w"," ","S","e","a","s","o","n"," ","2">>)
\* "Some Show"
T_SomeShow == StrVal(<<"S","o","m","e"," ","S","h","o","w">>)
\* "Ab Cd Part Season 2 3"
T_AbCdPartSeason23 == StrVal(<<"A","b"," ","C","d"," ","P","a","r","t"," ","S","e","a","s","o","n"," ","2"," ","3">>)

\* bounds of the model
MaxData == 2
MaxCsv == 2
Overflow == 1
MaxPool == 2
MaxN == 3
MaxWords == 3

\* all sequences over S of length 0..n
SeqsUpTo(S, n) == UNION {[1..k -> S] : k \in 0..n}

\* a raw record of the catalog document: a title (any JSON value) and synonyms
Record(title, synonyms) == [title |-> title, synonyms |-> synonyms]

\* a record with a null synonym and more synonyms than are promoted, and a
\* record with an empty synonym
CatalogRecords ==
    { Record(T_AbEfS2Cd, <<NoneVal, T_AbCd, T_AbEfGhS2, T_AbS2>>),
      Record(T_AbCdBeyondEf, <<T_Empty, T_AbEfS2, T_AbCdPart2>>) }

\* a catalog that loads more than MAX_CANDIDATES entries
BulkData ==
    [i \in 1..(MAX_CANDIDATES \div (SynonymLimit + 1) + Overflow) |->
        Record(T_CdAb, <<T_CdEf, T_CdAb, T_The>>)]

\* a catalog whose entries have different first anchors, two of them the same
\* title, and one no anchor
MixedData == << Record(T_CdAb, <<T_AbCd, T_The, T_AbCd>>) >>

CatalogInputs == SeqsUpTo(CatalogRecords, MaxData) \cup {BulkData, MixedData}

\* the Title column of the query file
QueryTitles == {T_AbCdS2, T_The, T_Empty}

CsvInputs == SeqsUpTo(QueryTitles, MaxCsv)

\* the approaches called directly: query titles of any JSON type, and pools
\* that need not share an anchor with the query
CallTitles == {T_AbCd, T_AbCdS2, T_AoTS2, T_The, T_Empty, NoneVal, NumVal(7)}

PoolTitles == {T_AbCd, T_CdAb, T_AbCdEf, T_AbCdS2Ef, T_AoT, T_AoTJH}

PoolInputs == SeqsUpTo({Record(title, <<>>) : title \in PoolTitles}, MaxPool)

\* titles made of at most MaxWords words separated by single spaces: plain
\* words, a stop word, a one-character word, season markers, a colon
TitleWords == { <<"A","b">>,
               <<"C","d","e","f">>,
               <<"T","h","e">>,
               <<"2">>,
               <<"S","2">>,
               <<"S","e","a","s","o","n">>,
               <<"F","i","n","a","l">>,
               <<":">> }

RECURSIVE JoinWords(_)
JoinWords(words) ==
    IF words = <<>> THEN <<>>
    ELSE IF Len(words) = 1 THEN words[1]
    ELSE words[1] \o <<" ">> \o JoinWords(Tail(words))

TitleInputs ==
    {StrVal(JoinWords(words)) : words \in SeqsUpTo(TitleWords, MaxWords)}
    \cup {T_SomeShowSeason2, T_AbCdPartSeason23, T_AbCdBeyondEf, T_AoTS2,
          NoneVal, NumVal(7)}

----------------------------------------------------------------------------
(* Specification Spec: a run of main() of either program *)

InitRun(rows, records) ==
    /\ pc = "load_csv"
    /\ family \in {"topn", "v2"}
    /\ csv_rows \in rows
    /\ data \in records
    /\ csv_entries = <<>>
    /\ db_entries = <<>>
    /\ anchor_index = EmptyIndex
    /\ idx = 0
    /\ csv_entry = NoneEntry
    /\ candidates = <<>>
    /\ top_n = 0
    /\ a1_results = <<>>
    /\ a2_results = <<>>
    /\ a3_results = <<>>
    /\ all_candidates = <<>>
    /\ top_candidates = <<>>
    /\ full_results = <<>>
    /\ exc = "none"

Init == InitRun(CsvInputs, CatalogInputs)

\* Phase 1: build the query entries and precompute them
LoadCsv ==
    /\ pc = "load_csv"
    /\ LET r == load_csv(family, csv_rows, 1,
                         [exc |-> "none",
                          entries |-> [i \in 1..Len(csv_rows) |->
                                          NewEntry(i, csv_rows[i], FALSE)]])
       IN /\ csv_entries' = r.entries
          /\ exc' = r.exc
    /\ pc' = IF exc' = "none" THEN "load_db" ELSE "aborted"
    /\ UNCHANGED <<family, csv_rows, data, db_entries, anchor_index, idx,
                   csv_entry, candidates, top_n, a1_results, a2_results,
                   a3_results, all_candidates, top_candidates, full_results>>

\* Phase 2, one iteration (data is the catalog document; for the v2 program,
\* the records of its chunks in order): a raw record's title and its first 3
\* synonyms;
\* an exception of precompute_entry ends the run
LoadDbRecord ==
    /\ pc = "load_db"
    /\ idx < Len(data)
    /\ LET r == load_record(family, db_entries, data, idx + 1)
       IN /\ db_entries' = r.entries
          /\ exc' = r.exc
    /\ pc' = IF exc' = "none" THEN pc ELSE "aborted"
    /\ idx' = idx + 1
    /\ UNCHANGED <<family, csv_rows, data, csv_entries, anchor_index,
                   csv_entry, candidates, top_n, a1_results, a2_results,
                   a3_results, all_candidates, top_candidates, full_results>>

LoadDbDone ==
    /\ pc = "load_db"
    /\ idx = Len(data)
    /\ pc' = "index"
    /\ idx' = 0
    /\ UNCHANGED <<family, csv_rows, data, csv_entries, db_entries, anchor_index,
                   csv_entry, candidates, top_n, a1_results, a2_results,
                   a3_results, all_candidates, top_candidates, full_results, exc>>

\* Phase 3: build the index.  The top-N program then prints
\* len(db_entries)//len(anchor_index), the v2 program divides by max(len, 1).
BuildIndex ==
    /\ pc = "index"
    /\ anchor_index' = build_anchor_index(db_entries)
    /\ IF family = "topn" /\ DOMAIN anchor_index' = {}
       THEN exc' = "ZeroDivisionError" /\ pc' = "aborted"
       ELSE exc' = exc /\ pc' = "match"
    /\ UNCHANGED <<family, csv_rows, data, csv_entries, db_entries, idx,
                   csv_entry, candidates, top_n, a1_results, a2_results,
                   a3_results, all_candidates, top_candidates, full_results>>

\* test_entries = csv_entries[:20] (top-N) or csv_entries[:TEST_SIZE] (v2)
test_entries ==
    slice_to(csv_entries, IF family = "topn" THEN TopnTestSize ELSE TEST_SIZE)

\* the three top-N approaches on one query
CallTopN(entry, pool, n) ==
    /\ top_n' = n
    /\ a1_results' = approach_1_token_topn(entry, pool, n)
    /\ a2_results' = approach_2_anchor_topn(entry, pool, n)
    /\ a3_results' = approach_3_expand_topn(entry, pool, n)

\* the three best-single-match approaches on one query
CallBest(entry, pool) ==
    /\ top_n' = top_n
    /\ a1_results' = approach_1_token(entry, pool)
    /\ a2_results' = approach_2_anchor_score(entry, pool)
    /\ a3_results' = approach_3_expanded(entry, pool)

\* Phase 4, one iteration: candidates via the index, then the three approaches
MatchQuery ==
    /\ pc = "match"
    /\ idx < Len(test_entries)
    /\ csv_entry' = test_entries[idx + 1]
    /\ LET got == get_candidates(family, csv_entry', anchor_index, db_entries)
       IN /\ candidates' = got.val
          /\ anchor_index' = got.index
    /\ IF family = "topn"
       THEN CallTopN(csv_entry', candidates', TOP_N)
       ELSE CallBest(csv_entry', candidates')
    /\ idx' = idx + 1
    /\ UNCHANGED <<pc, family, csv_rows, data, csv_entries, db_entries,
                   all_candidates, top_candidates, full_results, exc>>

\* after the loop both programs divide by len(test_entries) in the summary;
\* the top-N program goes on to the export loop, the v2 program ends
MatchDone ==
    /\ pc = "match"
    /\ idx = Len(test_entries)
    /\ IF Len(test_entries) = 0
       THEN exc' = "ZeroDivisionError" /\ pc' = "aborted"
       ELSE exc' = exc /\ pc' = IF family = "topn" THEN "export" ELSE "done"
    /\ idx' = 0
    /\ UNCHANGED <<family, csv_rows, data, csv_entries, db_entries, anchor_index,
                   csv_entry, candidates, top_n, a1_results, a2_results,
                   a3_results, all_candidates, top_candidates, full_results>>

\* export loop of the top-N program, one iteration
ExportQuery ==
    /\ pc = "export"
    /\ idx < Len(csv_entries)
    /\ csv_entry' = csv_entries[idx + 1]
    /\ LET got == get_candidates(family, csv_entry', anchor_index, db_entries)
       IN /\ candidates' = got.val
          /\ anchor_index' = got.index
    /\ CallTopN(csv_entry', candidates', ExportTopN)
    /\ all_candidates' = merge_results(<<>>, a1_results' \o a2_results' \o a3_results', 1)
    /\ top_candidates' = slice_to(sort_desc(all_candidates'), ExportKeep)
    /\ full_results' = Append(full_results, export_row(csv_entry', top_candidates'))
    /\ idx' = idx + 1
    /\ UNCHANGED <<pc, family, csv_rows, data, csv_entries, db_entries, exc>>

ExportDone ==
    /\ pc = "export"
    /\ idx = Len(csv_entries)
    /\ pc' = "done"
    /\ UNCHANGED <<family, csv_rows, data, csv_entries, db_entries, anchor_index,
                   idx, csv_entry, candidates, top_n, a1_results, a2_results,
                   a3_results, all_candidates, top_candidates, full_results, exc>>

Next ==
    \/ LoadCsv
    \/ LoadDbRecord
    \/ LoadDbDone
    \/ BuildIndex
    \/ MatchQuery
    \/ MatchDone
    \/ ExportQuery
    \/ ExportDone

Spec == Init /\ [][Next]_vars

----------------------------------------------------------------------------
(* Specification SpecApproach: the approaches called on one query entry and
   an arbitrary pool of loaded catalog entries, without the index *)

InitApproach == InitRun({<<title>> : title \in CallTitles}, PoolInputs)

\* the best-single-match approaches (v2 program) on the loaded pool
ApproachBest ==
    /\ pc = "index"
    /\ family = "v2"
    /\ csv_entry' = csv_entries[1]
    /\ candidates' = db_entries
    /\ CallBest(csv_entry', candidates')
    /\ pc' = "returned"
    /\ UNCHANGED <<family, csv_rows, data, csv_entries, db_entries, anchor_index,
                   idx, all_candidates, top_candidates, full_results, exc>>

\* the top-N approaches (top-N program) on the loaded pool, for some n
ApproachTopN ==
    /\ pc = "index"
    /\ family = "topn"
    /\ csv_entry' = csv_entries[1]
    /\ candidates' = db_entries
    /\ \E n \in 0..MaxN : CallTopN(csv_entry', candidates', n)
    /\ pc' = "returned"
    /\ UNCHANGED <<family, csv_rows, data, csv_entries, db_entries, anchor_index,
                   idx, all_candidates, top_candidates, full_results, exc>>

NextApproach ==
    \/ LoadCsv
    \/ LoadDbRecord
    \/ LoadDbDone
    \/ ApproachBest
    \/ ApproachTopN

SpecApproach == InitApproach /\ [][NextApproach]_vars

----------------------------------------------------------------------------
(* Specification SpecTitle: precompute_entry applied to the query entry of
   one title of any JSON type *)

InitTitle == InitRun({<<title>> : title \in TitleInputs}, {<<>>})

NextTitle == LoadCsv

SpecTitle == InitTitle /\ [][NextTitle]_vars

----------------------------------------------------------------------------
(* Properties of the approaches, under SpecApproach *)

\* the approaches have returned for the query csv_entry and the pool candidates
Returned(fam) == pc = "returned" /\ family = fam

\* the indices of the pool entries whose token set equals the query's
ExactAt == {i \in 1..Len(candidates) :
               Get(candidates[i], "_tokens", {}) = Get(csv_entry, "_tokens", {})}

\* C1: approach_1_token, called with a query whose token set is not empty and
\* a pool that holds, at any position, an entry with exactly the query's
\* token set, returns an entry with that token set, score 1.0 and pass 1.
C1_ExactTokenMatch ==
    (Returned("v2") /\ Get(csv_entry, "_tokens", {}) # {} /\ ExactAt # {})
    => /\ a1_results.pass = 1
       /\ a1_results.score = One
       /\ \E i \in ExactAt : a1_results.match = candidates[i]

\* C1 witness: the exact entry comes second, after an entry that the loop was
\* tracking as its best (overlap at least 0.5), and is the one returned.
C1_Witness ==
    /\ Returned("v2")
    /\ Len(candidates) = 2
    /\ ExactAt = {2}
    /\ RatLE(Rat(5, 10), calc_overlap(Get(csv_entry, "_tokens", {}),
                                      Get(candidates[1], "_tokens", {})))
    /\ a1_results = Triple(candidates[2], 1, One)

\* the indices of the pool entries that share no first anchor and no last
\* anchor with the query
GatedAt == {i \in 1..Len(candidates) :
               /\ Get(csv_entry, "_anchors_first", {})
                    \cap Get(candidates[i], "_anchors_first", {}) = {}
               /\ Get(csv_entry, "_anchors_last", {})
                    \cap Get(candidates[i], "_anchors_last", {}) = {}}

\* C2: a pool entry that shares neither a first anchor nor a last anchor with
\* the query is not the match approach_2_anchor_score returns and is in no
\* result of approach_2_anchor_topn, whatever its token set.
C2_AnchorGate ==
    /\ Returned("v2") => \A i \in GatedAt : a2_results.match.id # candidates[i].id
    /\ Returned("topn") =>
          \A i \in GatedAt : \A k \in 1..Len(a2_results) :
              a2_results[k].entry.id # candidates[i].id

\* C2 witness: the top-N pool holds an entry with the query's token set that
\* is gated, next to an entry that is returned.
C2_Witness ==
    /\ Returned("topn")
    /\ Get(csv_entry, "_tokens", {}) # {}
    /\ GatedAt \cap ExactAt # {}
    /\ Len(a2_results) = 1

\* the scores of the results the three approaches returned
ResultScores ==
    IF family = "v2"
    THEN {a1_results.score, a2_results.score, a3_results.score}
    ELSE {a1_results[k].score : k \in 1..Len(a1_results)}
         \cup {a2_results[k].score : k \in 1..Len(a2_results)}
         \cup {a3_results[k].score : k \in 1..Len(a3_results)}

\* C3: every result of every approach, in either mode, has a score in [0, 1].
C3_ScoreInUnitInterval ==
    pc = "returned" => \A s \in ResultScores : RatLE(Zero, s) /\ RatLE(s, One)

\* the scenario of C4: the query "Attack on Titan Season 2" and a pool of
\* "Attack on Titan" and "Attack on Titan: Junior High", in either order
AoTScenario ==
    /\ pc = "returned"
    /\ csv_entry.title = T_AoTS2
    /\ Len(candidates) = 2
    /\ {candidates[1].title, candidates[2].title} = {T_AoT, T_AoTJH}

\* C4: in the scenario Approach 3 returns "Attack on Titan" with score 1.0 and
\* pass 1 (best-single-match) or lists it first (top-N, n >= 1), and the score
\* Approach 1 gives "Attack on Titan" is strictly lower than its Approach 3
\* score.
C4_AttackOnTitan ==
    /\ (AoTScenario /\ family = "v2") =>
          /\ a3_results.match.title = T_AoT
          /\ a3_results.score = One
          /\ a3_results.pass = 1
          /\ a1_results.match.title = T_AoT
          /\ RatLT(a1_results.score, a3_results.score)
    /\ (AoTScenario /\ family = "topn" /\ top_n >= 1) =>
          /\ a3_results[1].entry.title = T_AoT
          /\ \A k \in 2..Len(a3_results) :
                RatLT(a3_results[k].score, a3_results[1].score)
          /\ a1_results[1].entry.title = T_AoT
          /\ RatLT(a1_results[1].score, a3_results[1].score)

\* C4 witness: the spin-off is the first entry of the pool and the top-N
\* call asks for both entries.
C4_Witness ==
    /\ AoTScenario
    /\ family = "topn"
    /\ top_n = 2
    /\ candidates[1].title = T_AoTJH
    /\ a3_results[1].entry.title = T_AoT

\* scores never go up along a top-N result list
NonIncreasing(results) ==
    \A k \in 1..(Len(results) - 1) : RatLE(results[k + 1].score, results[k].score)

\* C5: each top-N approach returns at most n results, n >= 0, with
\* non-increasing scores.
C5_TopNBounded ==
    Returned("topn") =>
        \A results \in {a1_results, a2_results, a3_results} :
            Len(results) <= top_n /\ NonIncreasing(results)

\* C5 witness: both pool entries pass the gate of Approach 1, the second one
\* with the higher score, and n = 1 keeps that one only.
C5_Witness ==
    /\ Returned("topn")
    /\ top_n = 1
    /\ Len(candidates) = 2
    /\ Len(approach_1_token_topn(csv_entry, candidates, 2)) = 2
    /\ Len(a1_results) = 1
    /\ a1_results[1].entry = candidates[2]
    /\ RatLT(calc_overlap(csv_entry._tokens, candidates[1]._tokens),
             a1_results[1].score)

\* C8: for a query entry with the empty title, which got no bundle, every
\* approach returns no match: (None, 0, 0) or the empty list; nothing raised.
C8_EmptyQuery ==
    (pc = "returned" /\ csv_entry.title = T_Empty) =>
        /\ exc = "none"
        /\ csv_entry.keys = {}
        /\ family = "v2" =>
              \A r \in {a1_results, a2_results, a3_results} :
                  r = Triple(NoneEntry, 0, Zero)
        /\ family = "topn" =>
              \A r \in {a1_results, a2_results, a3_results} : r = <<>>

\* C8 witness: the approaches returned for the empty title on a pool of two
\* entries that have tokens.
C8_Witness ==
    /\ Returned("v2")
    /\ csv_entry.title = T_Empty
    /\ Len(candidates) = 2
    /\ \A i \in 1..2 : Get(candidates[i], "_tokens", {}) # {}

\* a title that is null, not a string, or the empty string
Malformed(title) == ~IsStr(title) \/ title = T_Empty

\* C9: precomputing the query entry of a malformed title raises nothing,
\* leaves the entry with empty signal sets at most, and no approach matches it.
C9_MalformedNeverRaises ==
    (pc # "load_csv" /\ Malformed(csv_rows[1])) =>
        /\ exc = "none"
        /\ \A key \in {"_tokens", "_anchors_first", "_anchors_last", "_3grams"} :
              Get(csv_entries[1], key, {}) = {}
        /\ Returned("v2") =>
              \A r \in {a1_results, a2_results, a3_results} : r.pass = 0
        /\ Returned("topn") =>
              \A r \in {a1_results, a2_results, a3_results} : r = <<>>

\* the Jaccard score Approach 1 gives pool entry i
A1Score(i) == calc_overlap(Get(csv_entry, "_tokens", {}), Get(candidates[i], "_tokens", {}))

\* the tier of the highest Approach 1 threshold a score clears below an exact
\* match: 2, 3, 4, or 0 for none
A1Tier(score) ==
    IF RatLE(Rat(9, 10), score) THEN 2
    ELSE IF RatLE(Rat(7, 10), score) THEN 3
    ELSE IF RatLE(Rat(5, 10), score) THEN 4
    ELSE 0

\* the indices of the pool entries whose score reaches some tier
A1Tiered == {i \in 1..Len(candidates) : A1Tier(A1Score(i)) # 0}

\* the first pool entry whose score is in the best tier any entry reaches
A1FirstOfBestTier ==
    CHOOSE i \in A1Tiered :
        /\ \A j \in A1Tiered : A1Tier(A1Score(i)) <= A1Tier(A1Score(j))
        /\ \A j \in A1Tiered : A1Tier(A1Score(j)) = A1Tier(A1Score(i)) => i <= j

\* C11: approach_1_token on a pool without an exact entry returns the first
\* entry, in pool order, of the best tier reached by any entry of the pool.
C11_FirstOfBestTier ==
    (Returned("v2") /\ Get(csv_entry, "_tokens", {}) # {} /\ ExactAt = {}
       /\ A1Tiered # {})
    => a1_results = Triple(candidates[A1FirstOfBestTier],
                           A1Tier(A1Score(A1FirstOfBestTier)),
                           A1Score(A1FirstOfBestTier))

\* the tier of the highest Approach 2 threshold a score clears, 0 for none
A2Tier(score) ==
    IF RatLE(Rat(9, 10), score) THEN 1
    ELSE IF RatLE(Rat(75, 100), score) THEN 2
    ELSE IF RatLE(Rat(6, 10), score) THEN 3
    ELSE IF RatLE(Rat(45, 100), score) THEN 4
    ELSE 0

\* the composite score approach_2_anchor_score gives pool entry i
A2Score(i) ==
    a2_total(csv_entry, candidates[i],
             Get(csv_entry, "_anchors_first", {})
                \cap Get(candidates[i], "_anchors_first", {}) # {},
             Get(csv_entry, "_anchors_last", {})
                \cap Get(candidates[i], "_anchors_last", {}) # {})

\* C12: the pass approach_1_token and approach_2_anchor_score return is the
\* tier of the highest threshold the returned score clears, and (None, 0) is
\* returned exactly when no eligible pool entry clears the lowest threshold.
C12_PassAgreesWithScore ==
    Returned("v2") =>
        /\ (a1_results.pass = 0) = (a1_results.match = NoneEntry)
        /\ (a1_results.pass = 0) =
              (Get(csv_entry, "_tokens", {}) = {} \/ A1Tiered = {})
        /\ a1_results.pass # 0 =>
              a1_results.pass =
                 IF a1_results.score = One
                    /\ Get(a1_results.match, "_tokens", {}) = Get(csv_entry, "_tokens", {})
                 THEN 1 ELSE A1Tier(a1_results.score)
        /\ (a2_results.pass = 0) = (a2_results.match = NoneEntry)
        /\ (a2_results.pass = 0) =
              (\A i \in 1..Len(candidates) : i \in GatedAt \/ A2Tier(A2Score(i)) = 0)
        /\ a2_results.pass # 0 => a2_results.pass = A2Tier(a2_results.score)

\* the non-empty token sets of the expanded variants of an entry
VariantTokens(fam, entry) ==
    {ToSet(extract_tokens(fam, Get(entry, "_expanded", <<entry.title>>)[k])) :
        k \in 1..Len(Get(entry, "_expanded", <<entry.title>>))} \ {{}}

\* the pairings (query variant tokens, candidate variant tokens) Approach 3
\* compares, over the whole pool
Pairings(fam) ==
    UNION {VariantTokens(fam, csv_entry) \X VariantTokens(fam, candidates[i]) :
              i \in 1..Len(candidates)}

\* C13: approach_3_expanded returns pass 2 when no pairing has equal token
\* sets and some pairing has one token set containing the other.
C13_SubsetIsTierTwo ==
    (Returned("v2")
       /\ (\A pair \in Pairings("v2") : pair[1] # pair[2])
       /\ (\E sub \in Pairings("v2") :
              sub[1] \subseteq sub[2] \/ sub[2] \subseteq sub[1]))
    => a3_results.pass = 2

\* the score each top-N approach gives pool entry i
A1TopnScore(i) == A1Score(i)

A2TopnScore(i) ==
    a2_topn_total(csv_entry, candidates[i],
                  Get(csv_entry, "_anchors_first", {})
                     \cap Get(candidates[i], "_anchors_first", {}) # {},
                  Get(csv_entry, "_anchors_last", {})
                     \cap Get(candidates[i], "_anchors_last", {}) # {})

A3TopnScore(i) ==
    a3_topn_best_overlap(Get(csv_entry, "_expanded", <<csv_entry.title>>),
                         Get(candidates[i], "_expanded", <<candidates[i].title>>),
                         1, Zero)

\* the pool entries that pass the gate of each top-N approach (for Approach 2
\* the anchor gate of C2 and the score gate)
A1Passing == {i \in 1..Len(candidates) : RatLT(Rat(3, 10), A1TopnScore(i))}

A2Passing == {i \in 1..Len(candidates) \ GatedAt : RatLT(Rat(4, 10), A2TopnScore(i))}

A3Passing == {i \in 1..Len(candidates) : RatLT(Rat(5, 10), A3TopnScore(i))}

\* results holds min(n, |passing|) distinct passing entries with their scores,
\* and no passing entry left out scores higher than an entry of results
HighestPassing(results, passing, score, n) ==
    /\ Len(results) = PyMin(n, Cardinality(passing))
    /\ \A k \in 1..Len(results) :
          \E i \in passing :
              results[k].entry = candidates[i] /\ results[k].score = score[i]
    /\ \A k, m \in 1..Len(results) :
          results[k].entry.id = results[m].entry.id => k = m
    /\ \A i \in passing :
          (\A k \in 1..Len(results) : results[k].entry.id # candidates[i].id)
          => \A k \in 1..Len(results) : RatLE(score[i], results[k].score)

\* C14: each top-N list holds only pool entries whose score is strictly above
\* the approach's gate (0.3, 0.4, 0.5), and it holds the n highest-scoring of
\* them, or all of them when fewer than n pass.
C14_TopNGatesAndCompleteness ==
    Returned("topn") =>
        /\ HighestPassing(a1_results, A1Passing,
                          [i \in 1..Len(candidates) |-> A1TopnScore(i)], top_n)
        /\ HighestPassing(a2_results, A2Passing,
                          [i \in 1..Len(candidates) |-> A2TopnScore(i)], top_n)
        /\ HighestPassing(a3_results, A3Passing,
                          [i \in 1..Len(candidates) |-> A3TopnScore(i)], top_n)

\* C14 witness: a pool entry scores exactly 0.5 in Approach 3 and is left out
\* of a list that had room for it, next to an entry that is listed.
C14_Witness ==
    /\ Returned("topn")
    /\ top_n >= 2
    /\ Len(candidates) = 2
    /\ A3TopnScore(1) = Rat(5, 10)
    /\ Len(a3_results) = 1
    /\ a3_results[1].entry = candidates[2]

----------------------------------------------------------------------------
(* Properties of the pre-computation, under SpecTitle *)

\* the entry of the title has been precomputed
Precomputed == pc # "load_csv"

\* anchors is what get_anchors is specified to return for the token list
AnchorsAsSpecified(tokens, anchors) ==
    /\ Len(tokens) = 0 => anchors = << <<>>, <<>> >>
    /\ Len(tokens) = 1 => anchors = << <<tokens[1]>>, <<>> >>
    /\ Len(tokens) >= 2 => anchors = << <<tokens[1]>>, <<tokens[Len(tokens)]>> >>
    /\ Len(anchors[1]) <= 1 /\ Len(anchors[2]) <= 1
    /\ ToSet(anchors[1]) \cup ToSet(anchors[2]) \subseteq ToSet(tokens)
    /\ (tokens # <<>> /\ tokens[1] # tokens[Len(tokens)]) => anchors[1] # anchors[2]

\* the anchor sets of the bundle are the anchors
StoredAnchors(entry, anchors) ==
    "_anchors_first" \in entry.keys =>
        /\ entry._anchors_first = ToSet(anchors[1])
        /\ entry._anchors_last = ToSet(anchors[2])

\* C16: get_anchors returns (empty, empty) for a title without tokens,
\* ({token}, empty) for one token, ({first}, {last}) for two or more; the
\* anchors are tokens of the title, at most one per set, and differ when the
\* first and last tokens differ; these are the anchor sets of the bundle.
C16_Anchors ==
    Precomputed =>
        /\ AnchorsAsSpecified(extract_tokens(family, csv_rows[1]),
                              get_anchors(family, csv_rows[1]))
        /\ StoredAnchors(csv_entries[1], get_anchors(family, csv_rows[1]))

\* C16 witness: a title of three words of which one is a token; its bundle
\* has that token as first anchor and no last anchor.
C16_Witness ==
    /\ Precomputed
    /\ Len(str_split(csv_rows[1].s, 1, <<>>)) = 3
    /\ Len(extract_tokens(family, csv_rows[1])) = 1
    /\ csv_entries[1]._anchors_first = ToSet(extract_tokens(family, csv_rows[1]))
    /\ csv_entries[1]._anchors_last = {}

\* expanded is what expand_title is specified to return for title, base being
\* the copy of the title after all strip rules and the trim
ExpandedAsSpecified(title, base, expanded) ==
    /\ Len(expanded) \in {1, 2}
    /\ expanded[1] = title
    /\ (Len(expanded) = 2) = (base # title.s /\ Len(base) > 3)
    /\ Len(expanded) = 2 => expanded[2] = StrVal(base)

\* C17: for a non-empty string title expand_title returns the title, followed
\* by the stripped copy exactly when that copy differs from the title and is
\* longer than 3; "Some Show Season 2" gives "Some Show", and in
\* "Ab Cd Part Season 2 3" the part rule sees the result of the season rule.
C17_Expand ==
    (Precomputed /\ IsStr(csv_rows[1]) /\ csv_rows[1] # T_Empty) =>
        /\ exc = "none"
        /\ "_expanded" \in csv_entries[1].keys
        /\ ExpandedAsSpecified(csv_rows[1],
                               str_strip(strip_patterns(1, csv_rows[1].s)),
                               csv_entries[1]._expanded)
        /\ csv_rows[1] = T_SomeShowSeason2 =>
              csv_entries[1]._expanded = <<T_SomeShowSeason2, T_SomeShow>>
        /\ csv_rows[1] = T_AbCdPartSeason23 =>
              csv_entries[1]._expanded = <<T_AbCdPartSeason23, T_AbCd>>
        /\ csv_rows[1] = T_AbS2 => csv_entries[1]._expanded = <<T_AbS2>>

\* C17 witness: the example, expanded to two variants.
C17_Witness ==
    /\ Precomputed
    /\ csv_rows[1] = T_SomeShowSeason2
    /\ csv_entries[1]._expanded = <<T_SomeShowSeason2, T_SomeShow>>

----------------------------------------------------------------------------
(* Properties of a run of main(), under Spec *)

\* a query has been handed to the approaches; csv_entry and candidates are
\* the query and its pool
Queried == csv_entry # NoneEntry

NoAnchorQuery == Queried /\ Get(csv_entry, "_anchors_first", {}) = {}

\* list is the first n entries of db_entries
PrefixOfCatalog(list, n) == n <= Len(db_entries) /\ list = SubSeq(db_entries, 1, n)

\* C6 as stated: in both programs the pool of a query without anchors is a
\* prefix of the loaded catalog of at most MAX_CANDIDATES entries.
C6_BoundedPrefixEverywhere ==
    NoAnchorQuery =>
        /\ Len(candidates) <= MAX_CANDIDATES
        /\ PrefixOfCatalog(candidates, Len(candidates))

\* C6 amended: the pool of a query without anchors is the first
\* min(MAX_CANDIDATES, len) entries of the loaded catalog in the top-N program,
\* and the whole loaded catalog in the v2 program.
C6_PrefixTopnWholeV2 ==
    NoAnchorQuery =>
        /\ family = "topn" =>
              /\ Len(candidates) = PyMin(MAX_CANDIDATES, Len(db_entries))
              /\ PrefixOfCatalog(candidates, Len(candidates))
        /\ family = "v2" => candidates = db_entries

\* C6 witness: the top-N program cut a catalog of more than MAX_CANDIDATES
\* entries for a query without anchors.
C6_Witness ==
    /\ NoAnchorQuery
    /\ family = "topn"
    /\ Len(db_entries) > MAX_CANDIDATES
    /\ Len(candidates) = MAX_CANDIDATES

\* the results of the three approaches for the query exported last
AllResults == a1_results \o a2_results \o a3_results

\* some approach gave this title this score under this label
Produced(title, score, method) ==
    \E k \in 1..Len(AllResults) :
        /\ AllResults[k].entry.title = title
        /\ AllResults[k].score = score
        /\ AllResults[k].method = method

\* no approach gave a title in titles a higher score
HighestAmong(titles, score) ==
    \A k \in 1..Len(AllResults) :
        AllResults[k].entry.title \in titles => RatLE(AllResults[k].score, score)

\* the row exported last
LastRow == full_results[Len(full_results)]

\* C7: after a query is exported, the merged set has one record per title
\* that some approach returned, each with the highest score given to that
\* title and the label of an approach that gave it; the retained list is the
\* merged set sorted by descending score and cut to 5; the primary suggestion
\* has the highest score of all results, or is empty when there are none.
C7_Aggregation ==
    (pc \in {"export", "done"} /\ full_results # <<>>) =>
        /\ \A i, j \in 1..Len(all_candidates) :
              all_candidates[i].title = all_candidates[j].title => i = j
        /\ {all_candidates[i].title : i \in 1..Len(all_candidates)}
              = {AllResults[k].entry.title : k \in 1..Len(AllResults)}
        /\ \A i \in 1..Len(all_candidates) :
              /\ Produced(all_candidates[i].title, all_candidates[i].score,
                          all_candidates[i].method)
              /\ HighestAmong({all_candidates[i].title}, all_candidates[i].score)
        /\ Len(top_candidates) = PyMin(ExportKeep, Len(all_candidates))
        /\ NonIncreasing(top_candidates)
        /\ \A i \in 1..Len(top_candidates) :
              /\ \E j \in 1..Len(all_candidates) : top_candidates[i] = all_candidates[j]
              /\ \A j \in 1..Len(all_candidates) :
                    (\A k \in 1..Len(top_candidates) : top_candidates[k] # all_candidates[j])
                    => RatLE(all_candidates[j].score, top_candidates[i].score)
        /\ LastRow.candidate_count = Len(top_candidates)
        /\ IF AllResults = <<>>
           THEN /\ LastRow.top_candidate = T_Empty
                /\ LastRow.top_score = Zero
                /\ LastRow.top_method = ""
           ELSE /\ Produced(LastRow.top_candidate, LastRow.top_score, LastRow.top_method)
                /\ HighestAmong({AllResults[k].entry.title : k \in 1..Len(AllResults)},
                                LastRow.top_score)

\* C7 witness: more than 5 titles were merged, and one of them was returned
\* by two approaches with different scores.
C7_Witness ==
    /\ pc \in {"export", "done"}
    /\ full_results # <<>>
    /\ Len(all_candidates) > ExportKeep
    /\ Len(top_candidates) = ExportKeep
    /\ \E k, m \in 1..Len(AllResults) :
          /\ AllResults[k].entry.title = AllResults[m].entry.title
          /\ RatLT(AllResults[k].score, AllResults[m].score)

\* C10: the index changes in one step only, the build, which is taken once,
\* when the catalog is loaded and before any query is handed to an approach;
\* from the build on no step changes the index or the loaded catalog entries.
C10_IndexBuiltOnceThenReadOnly ==
    [][ /\ anchor_index' # anchor_index =>
              /\ pc = "index"
              /\ idx = 0
              /\ ~Queried
              /\ anchor_index = EmptyIndex
              /\ anchor_index' = build_anchor_index(db_entries)
        /\ pc \in {"load_csv", "load_db", "index"} =>
              ~Queried /\ anchor_index = EmptyIndex
        /\ pc \in {"index", "match", "export", "done", "aborted"} =>
              /\ db_entries' = db_entries
              /\ pc' # "index"
        /\ pc \in {"match", "export", "done"} => anchor_index' = anchor_index
      ]_vars

\* C10 witness: a lookup of an anchor that has no bucket in a non-empty index
\* has happened.
C10_Witness ==
    /\ Queried
    /\ pc \in {"match", "export"}
    /\ anchor_index # EmptyIndex
    /\ \E a \in Get(csv_entry, "_anchors_first", {}) : a \notin DOMAIN anchor_index

\* the index has been built
IndexBuilt == pc \in {"match", "export", "done"}

\* the loaded catalog entries that have anchor as a first anchor, in catalog
\* order
WithFirstAnchor(anchor) ==
    LET HasAnchor(e) == anchor \in Get(e, "_anchors_first", {})
    IN SelectSeq(db_entries, HasAnchor)

\* how many times the entry of identity id is in list
Occurrences(list, id) == Cardinality({k \in 1..Len(list) : list[k].id = id})

\* C15: once built, the index has a bucket for each first anchor of the
\* catalog; the bucket of an anchor is the catalog entries with that first
\* anchor, each once, in catalog order; an entry is in no other bucket and an
\* entry without first anchor in none; the pool gathered for a query with a
\* first anchor is the catalog entries with the same first anchor, each once,
\* in catalog order.
C15_IndexBuckets ==
    IndexBuilt =>
        /\ DOMAIN anchor_index =
              UNION {Get(db_entries[k], "_anchors_first", {}) : k \in 1..Len(db_entries)}
        /\ \A a \in DOMAIN anchor_index : anchor_index[a] = WithFirstAnchor(a)
        /\ \A k \in 1..Len(db_entries) : \A a \in DOMAIN anchor_index :
              Occurrences(anchor_index[a], db_entries[k].id) =
                 IF Get(db_entries[k], "_anchors_first", {}) = {a} THEN 1 ELSE 0
        /\ (Queried /\ Get(csv_entry, "_anchors_first", {}) # {}) =>
              /\ \E a \in csv_entry._anchors_first :
                    /\ csv_entry._anchors_first = {a}
                    /\ candidates = WithFirstAnchor(a)
              /\ \A k \in 1..Len(db_entries) :
                    Occurrences(candidates, db_entries[k].id) =
                       IF Get(db_entries[k], "_anchors_first", {}) = csv_entry._anchors_first
                       THEN 1 ELSE 0

\* C15 witness: the pool of a query holds two distinct entries of the same
\* title, while the catalog also holds an entry with another first anchor and
\* an entry without anchors.
C15_Witness ==
    /\ IndexBuilt
    /\ Queried
    /\ Len(candidates) = 2
    /\ candidates[1].title = candidates[2].title
    /\ candidates[1].id < candidates[2].id
    /\ Cardinality(DOMAIN anchor_index) = 2
    /\ \E k \in 1..Len(db_entries) : db_entries[k]._anchors_first = {}

\* C18: in the top-N program, for a query with a first anchor, every entry
\* of the pool passes the anchor gate of Approach 2 and scores above 0.4, so
\* approach_2_anchor_topn returns min(n, size of the pool) results, and the
\* exported row has a candidate whenever the pool is not empty.
C18_AnchorPoolAllPass ==
    (family = "topn" /\ IndexBuilt /\ Queried
       /\ Get(csv_entry, "_anchors_first", {}) # {})
    => /\ \A i \in 1..Len(candidates) :
             i \notin GatedAt /\ RatLT(Rat(4, 10), A2TopnScore(i))
       /\ Len(a2_results) = PyMin(top_n, Len(candidates))
       /\ (full_results # <<>> /\ candidates # <<>>) => LastRow.candidate_count >= 1

\* C18 witness: the export loop asked Approach 2 for 3 results on a pool of
\* more than 3 entries and got 3.
C18_Witness ==
    /\ family = "topn"
    /\ pc = "export"
    /\ full_results # <<>>
    /\ Get(csv_entry, "_anchors_first", {}) # {}
    /\ Len(candidates) > ExportTopN
    /\ Len(a2_results) = ExportTopN

====
